---- MODULE Spec2Model ----
(***************************************************************************)
(* Model of the RAG question-answering service: the RAGEngine object       *)
(* (rag_engine.py) and the Flask handlers in front of it (app.py).         *)
(*                                                                         *)
(* Python strings that the code slices, measures, lower-cases or           *)
(* concatenates are sequences of one-character strings.  Texts that the    *)
(* code only passes through (error messages, the farewell) are TLA+        *)
(* strings.                                                                *)
(***************************************************************************)
EXTENDS Integers, Sequences, FiniteSets, TLC

(***************************************************************************)
(* Bounds of the model.                                                    *)
(***************************************************************************)
MaxDocs == 2      \* documents found in DocumentDir by one build
MaxOver == 2      \* longest chunk text is ExcerptLimit + MaxOver characters

(***************************************************************************)
(* Program constants.                                                      *)
(***************************************************************************)
ExcerptLimit == 200
TopK == 2

None == [none |-> TRUE]

(***************************************************************************)
(* Strings.                                                                *)
(***************************************************************************)
Min(a, b) == IF a < b THEN a ELSE b

\* s[:n]
Take(s, n) == SubSeq(s, 1, Min(n, Len(s)))

EndsWith(s, suf) ==
    /\ Len(suf) <= Len(s)
    /\ SubSeq(s, Len(s) - Len(suf) + 1, Len(s)) = suf

StartsWith(s, pre) ==
    /\ Len(pre) <= Len(s)
    /\ SubSeq(s, 1, Len(pre)) = pre

Contains(s, sub) ==
    \E i \in 0..(Len(s) - Len(sub)) : SubSeq(s, i + 1, i + Len(sub)) = sub

Upper == <<"E", "X", "I", "T", "W", "H", "Y">>
Lower == <<"e", "x", "i", "t", "w", "h", "y">>

LowerChar(c) ==
    IF \E i \in 1..Len(Upper) : Upper[i] = c
    THEN Lower[CHOOSE i \in 1..Len(Upper) : Upper[i] = c]
    ELSE c

\* str.lower()
ToLower(s) == [i \in 1..Len(s) |-> LowerChar(s[i])]

Whitespace == {" ", "\t", "\n"}

\* empty, or nothing but whitespace
IsBlank(s) == \A i \in 1..Len(s) : s[i] \in Whitespace

CheckFurther ==
    <<"\n", "\n", " ", "C", "h", "e", "c", "k", " ", "f", "u", "r", "t", "h",
      "e", "r", " ", "a", "t", " ">>
PageNos == <<"p", "a", "g", "e", " ", "n", "o", "s", ":", " ">>
PageSep == <<",", " ">>
Ellipsis == <<".", ".", ".">>
Unknown == <<"U", "n", "k", "n", "o", "w", "n">>
ExitWord == <<"e", "x", "i", "t">>
Farewell == "Thank you for reaching out. Feel free to visit us again.. byee"

(***************************************************************************)
(* The response object of query_engine.query: the generated text and the   *)
(* retrieved nodes.  A node has a text, perhaps a score, perhaps an inner  *)
(* node with a metadata dictionary.  A dictionary is a function whose      *)
(* domain is the set of keys present.                                      *)
(***************************************************************************)
Alphabet == <<"a", "b", " ">>

\* a chunk text of the given length
Text(len) == [i \in 1..len |-> Alphabet[(i % 3) + 1]]

TextLens == {0} \cup ((ExcerptLimit - 1)..(ExcerptLimit + MaxOver))

FileNames == {<<"a", ".", "p", "d", "f">>}
PageLabels == {<<"3">>, <<"7">>}

Metadatas ==
    {<<>>}
    \cup {[k \in {"file_name"} |-> f] : f \in FileNames}
    \cup {[k \in {"page_label"} |-> p] : p \in PageLabels}
    \cup {[k \in {"file_name", "page_label"} |->
              IF k = "file_name" THEN f ELSE p] : f \in FileNames, p \in PageLabels}

\* score: the attribute is missing, is None, or is a number
NoScoreAttr == [attr |-> FALSE, none |-> FALSE, val |-> 0]
NoneScore == [attr |-> TRUE, none |-> TRUE, val |-> 0]
Scores == {NoScoreAttr, NoneScore, [attr |-> TRUE, none |-> FALSE, val |-> 1]}

Nodes ==
    {[text |-> Text(l), score |-> s, hasNode |-> TRUE, metadata |-> m] :
        l \in TextLens, s \in Scores, m \in Metadatas}
    \cup {[text |-> Text(l), score |-> s, hasNode |-> FALSE, metadata |-> <<>>] :
        l \in TextLens, s \in Scores}

\* retrieval returns at most similarity_top_k nodes, in rank order
NodeLists == UNION {[1..k -> Nodes] : k \in 0..TopK}

Generated == {<<"o", "k">>, <<>>}

Responses ==
    {[response |-> g, hasNodes |-> TRUE, source_nodes |-> ns] :
        g \in Generated, ns \in NodeLists}
    \cup {[response |-> g, hasNodes |-> FALSE, source_nodes |-> <<>>] :
        g \in Generated}

\* the responses the request threads draw from
FewNodes ==
    {[text |-> Text(1), score |-> [attr |-> TRUE, none |-> FALSE, val |-> 1], hasNode |-> TRUE, metadata |-> m] :
        m \in {<<>>, [k \in {"file_name", "page_label"} |->
                         IF k = "file_name" THEN <<"a">> ELSE <<"3">>]}}

FewResponses ==
    {[response |-> <<"o", "k">>, hasNodes |-> TRUE, source_nodes |-> ns] :
        ns \in {<<>>} \cup {<<n>> : n \in FewNodes}}

HasKey(d, k) == k \in DOMAIN d

\* dict.get(k, default)
Get(d, k, default) == IF HasKey(d, k) THEN d[k] ELSE default

(***************************************************************************)
(* answer_question, lines 105-141: the formatting of a response.           *)
(***************************************************************************)
Raise(e) == [ok |-> FALSE, exc |-> e]

\* node.node.metadata['file_name'] and ['page_label'] of the top node
TopRefError(n) ==
    IF ~n.hasNode THEN "AttributeError"
    ELSE IF ~HasKey(n.metadata, "file_name") THEN "KeyError"
    ELSE IF ~HasKey(n.metadata, "page_label") THEN "KeyError"
    ELSE "ok"

\* node.node.metadata['page_label'] of the second node
SecondRefError(n) ==
    IF ~n.hasNode THEN "AttributeError"
    ELSE IF ~HasKey(n.metadata, "page_label") THEN "KeyError"
    ELSE "ok"

HasSources(r) == r.hasNodes /\ Len(r.source_nodes) > 0

\* TwoOrMore with > for >=
MoreThanTwo(ns) == Len(ns) > 2

TwoOrMore(ns) == Len(ns) >= 2

CitationError(r) ==
    IF ~HasSources(r) THEN "ok"
    ELSE IF TopRefError(r.source_nodes[1]) # "ok"
         THEN TopRefError(r.source_nodes[1])
    ELSE IF TwoOrMore(r.source_nodes)
         THEN SecondRefError(r.source_nodes[2])
    ELSE "ok"

\* the string named file_name in the code; used when CitationError is "ok"
CitationText(ns) ==
    IF TwoOrMore(ns)
    THEN ns[1].text \o ns[1].metadata["file_name"] \o PageNos
         \o ns[1].metadata["page_label"] \o PageSep \o ns[2].metadata["page_label"]
    ELSE ns[1].text \o ns[1].metadata["file_name"] \o PageNos
         \o ns[1].metadata["page_label"]

FinalResponse(r) ==
    IF HasSources(r)
    THEN r.response \o CheckFurther \o CitationText(r.source_nodes)
    ELSE r.response

\* TooLong with >= for >
AtLeastLimit(text) == Len(text) >= ExcerptLimit

TooLong(text) == Len(text) > ExcerptLimit

Excerpt(text) == IF TooLong(text) THEN Take(text, ExcerptLimit) \o Ellipsis ELSE text

\* float(None)
ScoreError(n) == n.score.attr /\ n.score.none

SourceEntry(n) ==
    [text |-> Excerpt(n.text),
     score |-> IF n.score.attr THEN [float |-> n.score.val] ELSE None,
     file_name |-> Get(IF n.hasNode THEN n.metadata ELSE <<>>, "file_name", Unknown),
     page_label |-> Get(IF n.hasNode THEN n.metadata ELSE <<>>, "page_label", Unknown)]

SourceDocuments(r) ==
    IF r.hasNodes
    THEN [i \in 1..Len(r.source_nodes) |-> SourceEntry(r.source_nodes[i])]
    ELSE <<>>

FormatResponse(question, r) ==
    IF CitationError(r) # "ok" THEN Raise(CitationError(r))
    ELSE IF r.hasNodes /\ \E i \in 1..Len(r.source_nodes) : ScoreError(r.source_nodes[i])
         THEN Raise("TypeError")
    ELSE [ok |-> TRUE,
          question |-> question,
          answer |-> FinalResponse(r),
          raw_answer |-> r.response,
          sources |-> SourceDocuments(r)]

(***************************************************************************)
(* The running service.  Main is the thread that runs the startup block    *)
(* and then app.run; Threads are the request threads of the HTTP server.   *)
(***************************************************************************)
Main == "main"
Threads == {"t1", "t2"}
Procs == Threads \cup {Main}

VARIABLES
    index,      \* rag_engine.index: None, or the published index
    pc,         \* where each thread is in its handler
    req,        \* the request a thread is serving
    lazy,       \* what the handler's test of rag_engine.index found
    building,   \* the index from_documents is assembling in a thread
    engine,     \* the index the thread's query engine was created on
    resp,       \* the response the thread returned last
    called,     \* the external services the current request has invoked
    fmtIn,      \* formatting alone: the response object
    fmtOut      \* formatting alone: what answer_question returns for it

vars == <<index, pc, req, lazy, building, engine, resp, called, fmtIn, fmtOut>>

srvVars == <<index, pc, req, lazy, building, engine, resp, called>>

Externals == {"loader", "embed", "generate"}

(***************************************************************************)
(* Requests.  The JSON body is None or a dictionary; a value is a string   *)
(* or something that is not a string (a number).                           *)
(***************************************************************************)
Str(s) == [isStr |-> TRUE, s |-> s, truthy |-> Len(s) > 0]
NotStr == [isStr |-> FALSE, s |-> <<>>, truthy |-> TRUE]

Why == <<"w", "h", "y">>

Questions == {Str(<<>>), Str(<<" ">>), Str(Why), NotStr}

Messages == {Str(<<>>), Str(<<"E", "x", "i", "t">>), Str(ExitWord), Str(Why)}

Bodies(key, values) ==
    {None, [k \in {"other"} |-> Str(Why)]} \cup {[k \in {key} |-> v] : v \in values}

KeyOf(kind) == IF kind = "ask" THEN "question" ELSE "message"

Requests ==
    {[kind |-> "reload", data |-> None]}
    \cup {[kind |-> "ask", data |-> d] : d \in Bodies("question", Questions)}
    \cup {[kind |-> "chat", data |-> d] : d \in Bodies("message", Messages)}

StartupReq == [kind |-> "startup", data |-> None]

\* not data or key not in data
MissingField(r) == r.data = None \/ ~HasKey(r.data, KeyOf(r.kind))

\* not value or not isinstance(value, str)
InvalidValue(v) == ~v.truthy \/ ~v.isStr

IsExit(v) == ToLower(v.s) = ExitWord

Error(status, msg) == [status |-> status, kind |-> "error", error |-> msg]

(***************************************************************************)
(* An index holds the chunks of one build, each embedded, and is named by  *)
(* the thread that built it.  It is fully built when it holds every chunk  *)
(* of its documents, and no other chunk.                                   *)
(***************************************************************************)
ChunksOf(id, n) == {<<id, i>> : i \in 1..n}

FullyBuilt(ix) == ix # None /\ ix.total > 0 /\ ix.chunks = ChunksOf(ix.id, ix.total)

Init ==
    /\ index = None
    /\ pc = [p \in Procs |-> IF p = Main THEN "load" ELSE "idle"]
    /\ req = [p \in Procs |-> IF p = Main THEN StartupReq ELSE None]
    /\ lazy = [p \in Procs |-> "unchecked"]
    /\ building = [p \in Procs |-> None]
    /\ engine = [p \in Procs |-> None]
    /\ resp = [p \in Procs |-> None]
    /\ called = [p \in Procs |-> {}]
    /\ fmtIn = None
    /\ fmtOut = None

(***************************************************************************)
(* load_data.  The caller decides what a success and a failure turn into.  *)
(***************************************************************************)
\* the except clause of the caller of load_data
LoadFailedResp(kind) ==
    IF kind = "startup" THEN [status |-> 0, kind |-> "warning",
                              error |-> "Failed to load data on startup"]
    ELSE IF kind = "reload" THEN Error(500, "Failed to reload data")
    ELSE Error(500, "Failed to initialize RAG engine")

AfterLoadFailed(p) ==
    /\ pc' = [pc EXCEPT ![p] = IF req[p].kind = "startup" THEN "serve" ELSE "idle"]
    /\ resp' = [resp EXCEPT ![p] = LoadFailedResp(req[p].kind)]
    /\ building' = [building EXCEPT ![p] = None]

\* SimpleDirectoryReader(...).load_data() returns the documents
LoadDocuments(p) ==
    /\ pc[p] = "load"
    /\ \E n \in 1..MaxDocs :
          building' = [building EXCEPT ![p] = [id |-> p, total |-> n, chunks |-> {}]]
    /\ called' = [called EXCEPT ![p] = @ \cup {"loader"}]
    /\ pc' = [pc EXCEPT ![p] = "embed"]
    /\ UNCHANGED <<index, req, lazy, engine, resp, fmtIn, fmtOut>>

\* SimpleDirectoryReader raises (the directory is empty or unreadable)
LoadDocumentsFails(p) ==
    /\ pc[p] = "load"
    /\ called' = [called EXCEPT ![p] = @ \cup {"loader"}]
    /\ AfterLoadFailed(p)
    /\ UNCHANGED <<index, req, lazy, engine, fmtIn, fmtOut>>

\* EmbedChunk building the index in place: every chunk embedded is published
EmbedChunkInPlace(p) ==
    /\ pc[p] = "embed"
    /\ LET b == building[p]
           next == <<b.id, Cardinality(b.chunks) + 1>>
       IN /\ building' = [building EXCEPT ![p].chunks = @ \cup {next}]
          /\ index' = [b EXCEPT !.chunks = @ \cup {next}]
          /\ pc' = [pc EXCEPT ![p] =
                       IF Cardinality(b.chunks) + 1 = b.total THEN "publish" ELSE "embed"]
    /\ called' = [called EXCEPT ![p] = @ \cup {"embed"}]
    /\ UNCHANGED <<req, lazy, engine, resp, fmtIn, fmtOut>>

\* VectorStoreIndex.from_documents embeds one more chunk
EmbedChunk(p) ==
    /\ pc[p] = "embed"
    /\ LET b == building[p]
           next == <<b.id, Cardinality(b.chunks) + 1>>
       IN /\ building' = [building EXCEPT ![p].chunks = @ \cup {next}]
          /\ pc' = [pc EXCEPT ![p] =
                       IF Cardinality(b.chunks) + 1 = b.total THEN "publish" ELSE "embed"]
    /\ called' = [called EXCEPT ![p] = @ \cup {"embed"}]
    /\ UNCHANGED <<index, req, lazy, engine, resp, fmtIn, fmtOut>>

\* EmbedFails with an except clause that drops the published index
EmbedFailsDropsIndex(p) ==
    /\ pc[p] = "embed"
    /\ called' = [called EXCEPT ![p] = @ \cup {"embed"}]
    /\ AfterLoadFailed(p)
    /\ index' = None
    /\ UNCHANGED <<req, lazy, engine, fmtIn, fmtOut>>

\* the embedding service fails inside from_documents
EmbedFails(p) ==
    /\ pc[p] = "embed"
    /\ called' = [called EXCEPT ![p] = @ \cup {"embed"}]
    /\ AfterLoadFailed(p)
    /\ UNCHANGED <<index, req, lazy, engine, fmtIn, fmtOut>>

\* self.index = <the index from_documents returned>, and the return to the caller
PublishIndex(p) ==
    /\ pc[p] = "publish"
    /\ index' = building[p]
    /\ building' = [building EXCEPT ![p] = None]
    /\ pc' = [pc EXCEPT ![p] =
                 CASE req[p].kind = "startup" -> "serve"
                   [] req[p].kind = "reload" -> "idle"
                   [] OTHER -> "parse"]
    /\ resp' = [resp EXCEPT ![p] =
                   CASE req[p].kind = "startup" ->
                            [status |-> 0, kind |-> "started", document_count |-> building[p].total]
                     [] req[p].kind = "reload" ->
                            [status |-> 200, kind |-> "reloaded", document_count |-> building[p].total]
                     [] OTHER -> @]
    /\ UNCHANGED <<req, lazy, engine, called, fmtIn, fmtOut>>

(***************************************************************************)
(* The handlers.                                                           *)
(***************************************************************************)
Serving == pc[Main] = "serve"

\* a request reaches a free thread; /api/reload calls load_data at once
Receive(t, r) ==
    /\ Serving
    /\ pc[t] = "idle"
    /\ req' = [req EXCEPT ![t] = r]
    /\ resp' = [resp EXCEPT ![t] = None]
    /\ called' = [called EXCEPT ![t] = {}]
    /\ lazy' = [lazy EXCEPT ![t] = "unchecked"]
    /\ pc' = [pc EXCEPT ![t] = IF r.kind = "reload" THEN "load" ELSE "check"]
    /\ UNCHANGED <<index, building, engine, fmtIn, fmtOut>>

\* CheckIndex without the lazy build: the handler goes on to the body
CheckIndexNoBuild(t) ==
    /\ pc[t] = "check"
    /\ lazy' = [lazy EXCEPT ![t] = IF index = None THEN "absent" ELSE "present"]
    /\ pc' = [pc EXCEPT ![t] = "parse"]
    /\ UNCHANGED <<index, req, building, engine, resp, called, fmtIn, fmtOut>>

\* if rag_engine.index is None: rag_engine.load_data()
CheckIndex(t) ==
    /\ pc[t] = "check"
    /\ IF index = None
       THEN /\ lazy' = [lazy EXCEPT ![t] = "absent"]
            /\ pc' = [pc EXCEPT ![t] = "load"]
       ELSE /\ lazy' = [lazy EXCEPT ![t] = "present"]
            /\ pc' = [pc EXCEPT ![t] = "parse"]
    /\ UNCHANGED <<index, req, building, engine, resp, called, fmtIn, fmtOut>>

\* the checks of the body, and the exit command of /api/chat
Validated(r) ==
    IF MissingField(r)
    THEN Error(400, IF r.kind = "ask" THEN "Missing 'question' field in request"
                    ELSE "Missing 'message' field in request")
    ELSE IF InvalidValue(r.data[KeyOf(r.kind)])
    THEN Error(400, IF r.kind = "ask" THEN "Question must be a non-empty string"
                    ELSE "Message must be a non-empty string")
    ELSE IF r.kind = "chat" /\ IsExit(r.data[KeyOf(r.kind)])
    THEN [status |-> 200, kind |-> "farewell", text |-> Farewell]
    ELSE None

Validate(t) ==
    /\ pc[t] = "parse"
    /\ resp' = [resp EXCEPT ![t] = Validated(req[t])]
    /\ pc' = [pc EXCEPT ![t] = IF Validated(req[t]) = None THEN "aq_check" ELSE "idle"]
    /\ UNCHANGED <<index, req, lazy, building, engine, called, fmtIn, fmtOut>>

\* the except clause around answer_question
ProcessFailed(kind) ==
    Error(500, IF kind = "ask" THEN "Failed to process question"
               ELSE "Failed to process message")

\* answer_question: if not self.index: raise ValueError
AqCheck(t) ==
    /\ pc[t] = "aq_check"
    /\ IF index = None
       THEN /\ resp' = [resp EXCEPT ![t] = ProcessFailed(req[t].kind)]
            /\ pc' = [pc EXCEPT ![t] = "idle"]
       ELSE /\ resp' = resp
            /\ pc' = [pc EXCEPT ![t] = "aq_engine"]
    /\ UNCHANGED <<index, req, lazy, building, engine, called, fmtIn, fmtOut>>

\* answer_question: self.index.as_query_engine(...), the second read of self.index
AqEngine(t) ==
    /\ pc[t] = "aq_engine"
    /\ IF index = None
       THEN /\ resp' = [resp EXCEPT ![t] = ProcessFailed(req[t].kind)]
            /\ pc' = [pc EXCEPT ![t] = "idle"]
            /\ engine' = engine
       ELSE /\ resp' = resp
            /\ pc' = [pc EXCEPT ![t] = "aq_query"]
            /\ engine' = [engine EXCEPT ![t] = index]
    /\ UNCHANGED <<index, req, lazy, building, called, fmtIn, fmtOut>>

Question(r) == r.data[KeyOf(r.kind)].s

\* what the handler returns for the result of answer_question
Answered(kind, result) ==
    IF ~result.ok THEN ProcessFailed(kind)
    ELSE IF kind = "ask" THEN [status |-> 200, kind |-> "json", json |-> result]
    ELSE [status |-> 200, kind |-> "text", answer |-> result.answer]

\* the responses a query on the index ix can produce: the retrieved nodes
\* are chunks of ix
QueryResponses(ix) ==
    {r \in FewResponses : Len(r.source_nodes) <= Min(TopK, Cardinality(ix.chunks))}

\* answer_question: query_engine.query(question) and the formatting
AqQuery(t) ==
    /\ pc[t] = "aq_query"
    /\ \E r \in QueryResponses(engine[t]) :
          resp' = [resp EXCEPT ![t] =
                      Answered(req[t].kind, FormatResponse(Question(req[t]), r))]
    /\ called' = [called EXCEPT ![t] = @ \cup {"embed", "generate"}]
    /\ engine' = [engine EXCEPT ![t] = None]
    /\ pc' = [pc EXCEPT ![t] = "idle"]
    /\ UNCHANGED <<index, req, lazy, building, fmtIn, fmtOut>>

\* query_engine.query raises: the embedding or the generation service fails
AqQueryFails(t) ==
    /\ pc[t] = "aq_query"
    /\ \E svc \in {{"embed"}, {"embed", "generate"}} :
          called' = [called EXCEPT ![t] = @ \cup svc]
    /\ resp' = [resp EXCEPT ![t] = ProcessFailed(req[t].kind)]
    /\ engine' = [engine EXCEPT ![t] = None]
    /\ pc' = [pc EXCEPT ![t] = "idle"]
    /\ UNCHANGED <<index, req, lazy, building, fmtIn, fmtOut>>

Next ==
    \/ \E p \in Procs : LoadDocuments(p)
    \/ \E p \in Procs : LoadDocumentsFails(p)
    \/ \E p \in Procs : EmbedChunk(p)
    \/ \E p \in Procs : EmbedFails(p)
    \/ \E p \in Procs : PublishIndex(p)
    \/ \E t \in Threads, r \in Requests : Receive(t, r)
    \/ \E t \in Threads : CheckIndex(t)
    \/ \E t \in Threads : Validate(t)
    \/ \E t \in Threads : AqCheck(t)
    \/ \E t \in Threads : AqEngine(t)
    \/ \E t \in Threads : AqQuery(t)
    \/ \E t \in Threads : AqQueryFails(t)

Spec == Init /\ [][Next]_vars

(***************************************************************************)
(* The formatting of answer_question on its own, over every response.      *)
(***************************************************************************)
InitFmt ==
    /\ index = None
    /\ pc = [p \in Procs |-> "idle"]
    /\ req = [p \in Procs |-> None]
    /\ lazy = [p \in Procs |-> "unchecked"]
    /\ building = [p \in Procs |-> None]
    /\ engine = [p \in Procs |-> None]
    /\ resp = [p \in Procs |-> None]
    /\ called = [p \in Procs |-> {}]
    /\ fmtIn \in Responses
    /\ fmtOut = None

FormatAnswer ==
    /\ fmtOut = None
    /\ fmtOut' = FormatResponse(Why, fmtIn)
    /\ UNCHANGED <<srvVars, fmtIn>>

NextFmt == FormatAnswer

SpecFmt == InitFmt /\ [][NextFmt]_vars

(***************************************************************************)
(* Properties.                                                             *)
(***************************************************************************)
LoadStages == {"load", "embed", "publish"}
AnswerStages == {"aq_check", "aq_engine", "aq_query"}

\* the thread has returned the response to its request
Responded(t) == pc[t] = "idle" /\ req[t] # None /\ resp[t] # None

\* the request carries the field the handler reads, and it is a string
HasString(r) ==
    /\ r # None
    /\ r.kind \in {"ask", "chat"}
    /\ ~MissingField(r)
    /\ r.data[KeyOf(r.kind)].isStr

\* C1: the published index is absent or fully built in every state, and so
\* is every index a reader has taken hold of: no reader sees a partly built
\* index or a mix of two builds.
C1_IndexAbsentOrFullyBuilt ==
    /\ index = None \/ FullyBuilt(index)
    /\ \A t \in Threads : engine[t] # None => FullyBuilt(engine[t])

\* a reader holds the old index while a rebuild has embedded part of the new
C1_Witness ==
    \E t \in Threads, p \in Procs :
        /\ pc[t] = "aq_query"
        /\ engine[t] # None
        /\ pc[p] = "embed"
        /\ building[p].chunks # {}
        /\ index # None

\* C2: at most one execution of load_data is in progress at any time.
C2_OneBuildAtATime ==
    Cardinality({p \in Procs : pc[p] \in LoadStages}) <= 1

\* C3: a request whose question is empty or whitespace-only invokes no
\* external service and is answered with the invalid-question error.
C3_BlankQuestionRejectedFirst ==
    \A t \in Threads :
        (HasString(req[t]) /\ IsBlank(Question(req[t]))) =>
            /\ called[t] = {}
            /\ Responded(t) => (resp[t].status = 400 /\ resp[t].kind = "error")

\* C4: the process serves requests whether or not the startup build failed,
\* a failed startup build leaves the index absent, a request that found the
\* index absent has attempted a build before it goes on to the body and to
\* answer_question, and answer_question never runs on an absent index.
C4_LazyBuildBeforeAnswer ==
    /\ resp[Main] # None => Serving
    /\ (resp[Main] # None /\ resp[Main].kind = "warning"
            /\ \A t \in Threads : req[t] = None) => index = None
    /\ \A t \in Threads :
          /\ pc[t] \in AnswerStages \cup {"parse"} =>
                /\ lazy[t] \in {"absent", "present"}
                /\ lazy[t] = "absent" => "loader" \in called[t]
          /\ pc[t] \in AnswerStages => (index # None \/ "loader" \in called[t])

\* the startup build failed and a request that found the index absent has
\* built it and is answering
C4_Witness ==
    /\ resp[Main] # None
    /\ resp[Main].kind = "warning"
    /\ \E t \in Threads : lazy[t] = "absent" /\ pc[t] = "aq_query"

\* C5: a /api/chat request whose message is "exit" in any case invokes no
\* external service (no build, no retrieval, no generation) and is answered
\* with the farewell.
C5_ExitBypassesPipeline ==
    \A t \in Threads :
        (HasString(req[t]) /\ req[t].kind = "chat" /\ IsExit(req[t].data["message"])) =>
            /\ called[t] = {}
            /\ pc[t] \notin LoadStages \cup AnswerStages
            /\ Responded(t) => (resp[t].kind = "farewell" /\ resp[t].text = Farewell)

\* C6: a /api/ask request whose body has no question key is answered with
\* HTTP 400 and an error field.
C6_MissingQuestionIs400 ==
    \A t \in Threads :
        (Responded(t) /\ req[t].kind = "ask" /\ MissingField(req[t])) =>
            (resp[t].status = 400 /\ resp[t].kind = "error")

\* the retrieved nodes of the response being formatted
FmtNodes == IF fmtIn.hasNodes THEN fmtIn.source_nodes ELSE <<>>

FmtReturned == fmtOut # None /\ fmtOut.ok

\* C7: with no chunk the answer is the raw answer; with one chunk of page
\* label p the answer ends with "page nos: p" and not with a separator; with
\* two chunks of labels p1, p2 it ends with "page nos: p1, p2"; with one or
\* two chunks the answer is the generated text, then the marker, then the top
\* match's text and file name.
C7_CitationSuffix ==
    FmtReturned =>
        LET ns == FmtNodes
            a == fmtOut.answer
        IN /\ Len(ns) = 0 => a = fmtOut.raw_answer
           /\ Len(ns) = 1 =>
                 /\ HasKey(ns[1].metadata, "page_label")
                 /\ EndsWith(a, PageNos \o ns[1].metadata["page_label"])
                 /\ ~EndsWith(a, PageSep)
                 /\ ~Contains(a, PageSep)
           /\ Len(ns) = 2 =>
                 /\ HasKey(ns[1].metadata, "page_label")
                 /\ HasKey(ns[2].metadata, "page_label")
                 /\ EndsWith(a, PageNos \o ns[1].metadata["page_label"]
                                    \o PageSep \o ns[2].metadata["page_label"])
           /\ Len(ns) >= 1 =>
                 /\ HasKey(ns[1].metadata, "file_name")
                 /\ fmtOut.raw_answer = fmtIn.response
                 /\ StartsWith(a, fmtIn.response \o CheckFurther \o ns[1].text
                                     \o ns[1].metadata["file_name"] \o PageNos)
                 /\ Len(a) > Len(fmtIn.response)

\* two chunks with different page labels have been formatted
C7_Witness ==
    /\ FmtReturned
    /\ Len(FmtNodes) = 2
    /\ HasKey(FmtNodes[1].metadata, "page_label")
    /\ HasKey(FmtNodes[2].metadata, "page_label")
    /\ FmtNodes[1].metadata["page_label"] = <<"3">>
    /\ FmtNodes[2].metadata["page_label"] = <<"7">>
    /\ Len(FmtNodes[1].text) > 0

\* C8: the text of a source entry is the chunk text when that has at most
\* 200 characters, and its first 200 characters followed by "..." when it
\* has more.
C8_ExcerptTruncation ==
    FmtReturned =>
        /\ Len(fmtOut.sources) = Len(FmtNodes)
        /\ \A i \in 1..Len(FmtNodes) :
              LET text == FmtNodes[i].text
                  e == fmtOut.sources[i].text
              IN /\ Len(text) <= 200 => e = text
                 /\ Len(text) > 200 =>
                       /\ Len(e) = 203
                       /\ SubSeq(e, 1, 200) = SubSeq(text, 1, 200)
                       /\ SubSeq(e, 201, 203) = <<".", ".", ".">>

\* a chunk of exactly 200 characters and one of 201 have been formatted
C8_Witness ==
    /\ FmtReturned
    /\ Len(FmtNodes) = 2
    /\ Len(FmtNodes[1].text) = 200
    /\ Len(FmtNodes[2].text) = 201

\* C9: every retrieval is answered with one source entry per retrieved
\* chunk, in rank order, and a file name, a page label or a score that is
\* missing gives "Unknown" or an absent score, not a failure.
C9_SourcesWithDefaults ==
    fmtOut # None =>
        /\ fmtOut.ok
        /\ Len(fmtOut.sources) = Len(FmtNodes)
        /\ \A i \in 1..Len(FmtNodes) :
              LET n == FmtNodes[i]
                  e == fmtOut.sources[i]
              IN /\ e.file_name = IF HasKey(n.metadata, "file_name")
                                  THEN n.metadata["file_name"] ELSE Unknown
                 /\ e.page_label = IF HasKey(n.metadata, "page_label")
                                   THEN n.metadata["page_label"] ELSE Unknown

\* C10: no step of a build that fails changes the published index: the
\* steps of load_data before the assignment leave it as it is, and so does
\* the failure, which is reported as the caller's failure response (HTTP 500
\* for /api/reload) while the index stays absent or fully built.
C10_FailedBuildKeepsIndex ==
    [][\A p \in Procs :
          /\ (pc[p] \in {"load", "embed"}
                /\ (pc'[p] # pc[p] \/ building'[p] # building[p])) => index' = index
          /\ (pc[p] \in {"load", "embed"} /\ pc'[p] \notin LoadStages) =>
                /\ index' = index
                /\ index' = None \/ FullyBuilt(index')
                /\ resp'[p] # None
                /\ req[p].kind = "reload" =>
                      (resp'[p].status = 500 /\ resp'[p].kind = "error")
                /\ req[p].kind \in {"ask", "chat"} => resp'[p].status = 500]_vars

\* a /api/reload failed in the embedding and the index built before it is
\* still published
C10_Witness ==
    \E t \in Threads :
        /\ Responded(t)
        /\ req[t].kind = "reload"
        /\ resp[t].status = 500
        /\ "embed" \in called[t]
        /\ FullyBuilt(index)

====
